---- MODULE Spec2Model ----
(***************************************************************************)
(* Transcription job orchestration of faster-vox.                          *)
(*                                                                         *)
(* The coordinating (GUI) thread runs every event-bus handler to           *)
(* completion: a publish made on that thread is dispatched synchronously   *)
(* (EventBus.publish emits a Qt signal whose receiver lives on the same    *)
(* thread), so a handler and everything it publishes is one action here.   *)
(* A TranscriptionWorker is a QThread: what it publishes is posted to the  *)
(* coordinating thread and delivered later, in order; this is `queue`.     *)
(*                                                                         *)
(* Four specifications share the actions: Spec is the job lifecycle with   *)
(* every request on one host; SpecStrategy starts jobs on every host and   *)
(* with every device preference, the host changing; SpecConfig changes the *)
(* settings while jobs run; SpecBatch is a longer batch that is started    *)
(* and left to run.                                                        *)
(***************************************************************************)
EXTENDS Integers, Sequences, FiniteSets, TLC

(* ---------------------------------------------------------------- bounds *)
MaxJobs == 2
MaxBatch == 3
MaxSegments == 1
MaxPaths == 2
MaxFiles == 3
MaxHalfSeconds == 4
MaxReports == 3
MaxHandlers == 2
MaxLines == 2

(* the seconds of the clock that pass while jobs are created *)
MaxSeconds == 1

(* ------------------------------------------------------------- constants *)
WAITING == "Waiting"
PREPARING == "Preparing"
STARTED == "Started"
IN_PROGRESS == "InProgress"
EXPORTING == "Exporting"
COMPLETED == "Completed"
FAILED == "Failed"
CANCELLED == "Cancelled"
CANCELLING == "Cancelling"

ACTIVE_STATUSES == {STARTED, IN_PROGRESS, PREPARING, EXPORTING, CANCELLING}

(* the statuses TaskService.update_task_state treats as the end of a job *)
TERMINAL_STATUSES == {COMPLETED, FAILED, CANCELLED}

Devices == {"cpu", "cuda", "auto"}

(* core.models.config: the extensions are listed with their dot *)
SUPPORTED_AUDIO_FORMATS ==
    {<<".", "m", "p", "3">>, <<".", "w", "a", "v">>, <<".", "o", "g", "g">>,
     <<".", "f", "l", "a", "c">>, <<".", "m", "4", "a">>,
     <<".", "a", "a", "c">>, <<".", "w", "m", "a">>}

SUPPORTED_VIDEO_FORMATS ==
    {<<".", "m", "p", "4">>, <<".", "a", "v", "i">>, <<".", "m", "k", "v">>,
     <<".", "m", "o", "v">>, <<".", "w", "m", "v">>, <<".", "f", "l", "v">>,
     <<".", "w", "e", "b", "m">>}

(* the files a request can name: a name, character by character, and what  *)
(* os.path.exists gives for it                                              *)
Files ==
    {[name |-> <<"a", ".", "m", "p", "3">>, exists |-> TRUE],
     [name |-> <<"b", ".", "m", "p", "4">>, exists |-> TRUE],
     [name |-> <<"c", ".", "t", "x", "t">>, exists |-> TRUE],
     [name |-> <<"d", ".", "m", "p", "3">>, exists |-> FALSE],
     [name |-> <<"E", ".", "M", "P", "3">>, exists |-> TRUE]}

(* what platform.system(), the NVML probe and the whisper executable's path give *)
Hosts == [is_windows : BOOLEAN, gpu : BOOLEAN, app : BOOLEAN]

DefaultHost == [is_windows |-> FALSE, gpu |-> FALSE, app |-> FALSE]

PYTHON == "python"
PRECOMPILED == "precompiled"

NO_ERROR == ""
ERR_MODEL == "model path unavailable"
ERR_EXPORT == "export failed"
ERR_UNKNOWN == "unknown error"
ERR_CANCELLED == "transcription cancelled"

(* the two ends of strategy.execute the specifications that do not look at *)
(* the text of the error need                                             *)
PlainResults == {<<"success", "">>, <<"reported", "no audio stream">>}

(* 1.0 in the fixed-point numbers (hundredths) that stand for the floats of *)
(* the progress computation: seconds and fractions alike                   *)
ONE == 100

(* segment end times and audio durations, in steps of half a second *)
Times == {k * (ONE \div 2) : k \in 0..MaxHalfSeconds}

NO_OUTPUT == ""

(* EventTypes *)

VARIABLES
    tasks,             \* TaskService.tasks: id -> Task (dict order = id order)
    task_counter,      \* TaskService.task_counter
    active_tasks,      \* TranscriptionService.active_tasks (keys)
    active_workers,    \* TranscriptionService.active_workers (keys)
    workers,           \* the TranscriptionWorker threads ever spawned, by task id
    queue,             \* worker events posted to the coordinating thread
    host,              \* the machine as the probes of EnvironmentService see it
    environment_info,  \* the EnvironmentInfo object shared by the services
    device,            \* transcription_parameters.device
    use_precompiled,   \* transcription_parameters.use_precompiled
    cuda_downloader,   \* ModelManagementService.active_downloaders has cuda_env
    log,               \* _update_task_status calls made by the last step
    exports,           \* export_transcription calls made by the last step
    model_lookups,     \* get_model_data results read by the last step
    cuda_triggers,     \* _download_cuda_environment calls made by the last step
    file_paths,        \* the files named by the add request of the last step
    added_task_ids,    \* what add_tasks returned to it
    handled,           \* the request the last step handled, if it was one
    unload_requests,   \* unload_model calls made by the last step
    batch_completed,   \* batch-wide TRANSCRIPTION_COMPLETED events it published
    state_events,      \* TASK_STATE_CHANGED events published by the last step
    process_info,      \* progress events the last step delivered to the view
    terminated,        \* jobs a terminal TASK_STATE_CHANGED was published for
    delivered,         \* the TASK_STATE_CHANGED events each subscriber was called
                       \* with by the last step, in the order of the calls
    context,           \* a TranscriptionContext and the progress it published
    bus,               \* the EventBus: _subscribers and the last dispatch
    refreshed,         \* the last call of EnvironmentService.refresh
    timestamp,         \* a timestamp of the transcript, parsed and written again
    process,           \* a run of the subprocess strategy and its child process
    registry           \* a TaskService of its own, for the ids of the jobs it creates

vars == <<tasks, task_counter, active_tasks, active_workers, workers, queue,
          host, environment_info, device, use_precompiled, cuda_downloader, log,
          exports, model_lookups, cuda_triggers, file_paths, added_task_ids,
          handled, unload_requests, batch_completed, state_events, process_info,
          terminated, delivered, context, bus,
          refreshed, timestamp, process, registry>>

(* the state of the components a job's lifecycle does not touch *)
units == <<bus, refreshed, timestamp, process, registry>>

(* --------------------------------------------------------------- helpers *)
(* the subscribers of TASK_STATE_CHANGED in the order of their             *)
(* subscriptions: MainWindow._init_ui creates the TaskView, which          *)
(* subscribes, before MainWindow._setup_connections subscribes             *)
(* first, second                                                           *)
NoDeliveries == [x \in {"TaskView", "MainWindow"} |-> <<>>]

Put(f, k, v) == [x \in DOMAIN f \cup {k} |-> IF x = k THEN v ELSE f[x]]

Min(S) == CHOOSE x \in S : \A y \in S : x <= y

(* x in list *)
Contains(list, x) == \E i \in 1..Len(list) : list[i] = x

RECURSIVE Ascending(_)
Ascending(S) == IF S = {} THEN <<>> ELSE <<Min(S)>> \o Ascending(S \ {Min(S)})

(* Task.__init__; `queued` remembers that the job was among the pending   *)
(* jobs of a start-processing request (mark_task_as_waiting was called)   *)
NewTask == [status |-> WAITING, progress |-> 0, error |-> NO_ERROR,
            output_path |-> NO_OUTPUT, queued |-> FALSE]

(* The part of the program state the coordinating thread's handlers touch. *)
Snapshot ==
    [tasks |-> tasks, at |-> active_tasks, aw |-> active_workers,
     w |-> workers, env |-> environment_info, up |-> use_precompiled,
     dl |-> cuda_downloader, log |-> <<>>, exp |-> <<>>, ml |-> <<>>,
     trig |-> 0, unl |-> <<>>, bc |-> 0, ev |-> <<>>,
     pi |-> <<>>, dlv |-> NoDeliveries]

Install(s) ==
    /\ tasks' = s.tasks
    /\ active_tasks' = s.at
    /\ active_workers' = s.aw
    /\ workers' = s.w
    /\ environment_info' = s.env
    /\ use_precompiled' = s.up
    /\ cuda_downloader' = s.dl
    /\ log' = s.log
    /\ exports' = s.exp
    /\ model_lookups' = s.ml
    /\ cuda_triggers' = s.trig
    /\ unload_requests' = s.unl
    /\ batch_completed' = s.bc
    /\ state_events' = s.ev
    /\ process_info' = s.pi
    /\ delivered' = s.dlv
    /\ terminated' = terminated \cup
                      {s.ev[i].task_id : i \in {k \in 1..Len(s.ev) :
                           s.ev[k].status \in TERMINAL_STATUSES}}
    /\ file_paths' = <<>>
    /\ added_task_ids' = <<>>
    /\ context' = context
    /\ UNCHANGED units

(* a step that makes none of these calls *)
NoCalls ==
    /\ log' = <<>>
    /\ exports' = <<>>
    /\ model_lookups' = <<>>
    /\ cuda_triggers' = 0
    /\ unload_requests' = <<>>
    /\ batch_completed' = 0
    /\ state_events' = <<>>
    /\ process_info' = <<>>
    /\ delivered' = NoDeliveries
    /\ terminated' = terminated
    /\ file_paths' = <<>>
    /\ added_task_ids' = <<>>
    /\ handled' = "none"
    /\ context' = context
    /\ UNCHANGED units

(* ------------------------------------------------------ EnvironmentInfo *)
can_use_gpu_acceleration(env) ==
    env.is_windows /\ env.has_gpu /\ env.whisper_app_available

should_download_cuda_env(env) ==
    env.is_windows /\ env.has_gpu /\ ~env.whisper_app_available

(* EnvironmentService._detect_environment: GPUs are probed on Windows only *)
Detect(h) ==
    [is_windows |-> h.is_windows,
     has_gpu |-> h.is_windows /\ h.gpu,
     whisper_app_available |-> h.app]

(* ------------------------------------------------------------ TaskService *)
get_active_tasks(t) == {id \in DOMAIN t : t[id].status \in ACTIVE_STATUSES}

(* the mutation: the newest Waiting job first *)
get_pending_tasks_newest_first(t) ==
    LET pending == Ascending({id \in DOMAIN t : t[id].status = WAITING})
    IN  [i \in 1..Len(pending) |-> pending[Len(pending) + 1 - i]]

(* the mutation: a Failed job is pending again *)
get_pending_tasks_with_failed(t) ==
    Ascending({id \in DOMAIN t : t[id].status \in {WAITING, FAILED}})

get_pending_tasks(t) == Ascending({id \in DOMAIN t : t[id].status = WAITING})

(* a TaskStateChangedEvent with the fields it carries and, in `held`, the  *)
(* Task the registry holds for the job when the event is made (no Task:   *)
(* the empty set)                                                         *)
TaskStateChangedEvent(s, id, status, progress, error, output_path) ==
    [task_id |-> id, status |-> status, progress |-> progress,
     error |-> error, output_path |-> output_path,
     held |-> IF id \in DOMAIN s.tasks THEN {s.tasks[id]} ELSE {}]

(* the mutation: the subscriber takes the event before the ones it has *)
Deliver_first(s, subscriber, e) ==
    [s EXCEPT !.dlv[subscriber] =
                  <<[task_id |-> e.task_id, status |-> e.status]>> \o @]

(* _dispatch_event calls the handler of one subscriber with the event *)
Deliver(s, subscriber, e) ==
    [s EXCEPT !.dlv[subscriber] =
                  Append(@, [task_id |-> e.task_id, status |-> e.status])]

(* event_bus.publish(TASK_STATE_CHANGED, e) on the coordinating thread,    *)
(* for an event whose handlers publish nothing: the subscribers are called *)
(* one after the other                                                     *)
PublishStateChanged(s, e) ==
    Deliver(Deliver([s EXCEPT !.ev = Append(@, e)], "TaskView", e),
            "MainWindow", e)

(* _update_task_status, lines 966-999: the Task is updated *)
SetTaskStatus(s, id, status, output_path) ==
    [s EXCEPT
       !.tasks[id].status = status,
       !.tasks[id].output_path =
           IF output_path # NO_OUTPUT THEN output_path ELSE @,
       !.log = Append(@, [task_id |-> id,
                          previous |-> s.tasks[id].status,
                          status |-> status])]

(* _update_task_status, lines 1001-1009: the event made of the Task *)
EventOfTask(s, id) ==
    TaskStateChangedEvent(s, id, s.tasks[id].status, s.tasks[id].progress,
                          s.tasks[id].error, s.tasks[id].output_path)

_update_task_status(s, id, status, output_path) ==
    IF id \notin DOMAIN s.tasks THEN s
    ELSE LET r == SetTaskStatus(s, id, status, output_path)
         IN  PublishStateChanged(r, EventOfTask(r, id))

(* TaskService._update_task_progress, reached through set_task_progress *)
_update_task_progress(s, id, progress) ==
    IF id \notin DOMAIN s.tasks THEN s
    ELSE [s EXCEPT !.tasks[id].progress = progress]

(* TaskService's handler, subscribed to TRANSCRIPTION_PROGRESS *)
_handle_transcription_progress(s, e) ==
    _update_task_progress(s, e.task_id, e.progress)

(* TaskView's handler, subscribed to TRANSCRIPTION_PROCESS_INFO: the view  *)
(* shows the text and the progress of the event                            *)
_handle_transcription_process_info(s, e) ==
    [s EXCEPT !.pi = Append(@, [task_id |-> e.task_id,
                                progress |-> e.progress])]

(* EventBus._dispatch_event of a progress event: the handlers subscribed   *)
(* to the topic it was published under are called                          *)
DispatchProgress(s, e) ==
    CASE e.type = "transcription_progress" ->
             _handle_transcription_progress(s, e)
      [] e.type = "transcription_process_info" ->
             _handle_transcription_process_info(s, e)

mark_task_as_waiting(s, id) ==
    LET r == _update_task_status(s, id, WAITING, NO_OUTPUT)
    IN  [r EXCEPT !.tasks[id].queued = TRUE]

start_task(s, id) == _update_task_status(s, id, STARTED, NO_OUTPUT)

request_cancel_task(s, id) == _update_task_status(s, id, CANCELLING, NO_OUTPUT)

cancel_task(s, id) == _update_task_status(s, id, CANCELLED, NO_OUTPUT)

mark_task_as_failed(s, id, error_message) ==
    IF id \notin DOMAIN s.tasks THEN s
    ELSE _update_task_status(
             IF error_message # NO_ERROR
             THEN [s EXCEPT !.tasks[id].error = error_message]
             ELSE s,
             id, FAILED, NO_OUTPUT)

(* TaskService._handle_transcription_error *)
_handle_transcription_error(s, id, error) ==
    mark_task_as_failed(
        IF id \in DOMAIN s.tasks THEN [s EXCEPT !.tasks[id].error = error] ELSE s,
        id, error)

(* pathlib's PurePath.suffix: from the last dot of the name, unless the name *)
(* starts or ends with it                                                   *)
LastDot(name) ==
    IF \E i \in 1..Len(name) : name[i] = "."
    THEN CHOOSE i \in 1..Len(name) :
             /\ name[i] = "."
             /\ \A j \in (i + 1)..Len(name) : name[j] # "."
    ELSE 0

Suffix(name) ==
    IF LastDot(name) > 1 /\ LastDot(name) < Len(name)
    THEN SubSeq(name, LastDot(name), Len(name))
    ELSE <<>>

(* str.lower, for the letters of Files *)
Lower(s) ==
    [i \in 1..Len(s) |->
        CASE s[i] = "E" -> "e"
          [] s[i] = "M" -> "m"
          [] s[i] = "P" -> "p"
          [] OTHER -> s[i]]

(* str.lstrip('.') *)
RECURSIVE LStrip(_)
LStrip(s) == IF s # <<>> /\ Head(s) = "." THEN LStrip(Tail(s)) ELSE s

get_file_extension(name) == LStrip(Lower(Suffix(name)))

is_supported_video_file(name) ==
    get_file_extension(name) \in SUPPORTED_VIDEO_FORMATS

is_supported_audio_file(name) ==
    get_file_extension(name) \in SUPPORTED_AUDIO_FORMATS

is_supported_media_file(name) ==
    is_supported_audio_file(name) \/ is_supported_video_file(name)

get_supported_media_extensions ==
    SUPPORTED_AUDIO_FORMATS \cup SUPPORTED_VIDEO_FORMATS

(* What the checks of _collect_valid_files (lines 563-578) and of _add_task *)
(* (lines 470-478) make of a file: passed by both, turned away, or missing. *)
PathKind(file) ==
    IF ~file.exists THEN "missing"
    ELSE IF /\ get_file_extension(file.name) \in get_supported_media_extensions
            /\ is_supported_media_file(file.name)
         THEN "media"
         ELSE "text"

(* TaskService._add_task: existence and media-type checks, then task_<counter> *)
_add_task(st, kind) ==
    IF kind # "media" THEN st
    ELSE [tasks |-> Put(st.tasks, st.counter, NewTask),
          counter |-> st.counter + 1]

(* TaskService._collect_valid_files for plain files *)
_collect_valid_files(paths) == SelectSeq(paths, LAMBDA k : k = "media")

RECURSIVE AddAll(_, _)
AddAll(st, files) ==
    IF files = <<>> THEN st
    ELSE AddAll(_add_task(st, Head(files)), Tail(files))

add_tasks(st, paths) == AddAll(st, _collect_valid_files(paths))

remove_task(t, id) ==
    IF id \in DOMAIN t THEN [x \in DOMAIN t \ {id} |-> t[x]] ELSE t

clear_all_tasks(t) == [x \in {} |-> NewTask]

(* --------------------------------------------------- TranscriptionService *)
(* the mutation: the device preference is not looked at *)
SelectStrategy_device_ignored(dev, env) == can_use_gpu_acceleration(env)

(* transcribe_task, lines 504-529: the value given to use_precompiled *)
SelectStrategy(dev, env) ==
    IF dev = "cpu" THEN FALSE
    ELSE can_use_gpu_acceleration(env)

(* the mutation: the download is triggered whenever acceleration is unavailable *)
TriggersDownload_unconditional(dev, env) ==
    dev # "cpu" /\ ~can_use_gpu_acceleration(env)

(* transcribe_task, lines 507-521: whether _download_cuda_environment is called *)
TriggersDownload(dev, env) ==
    /\ dev # "cpu"
    /\ ~can_use_gpu_acceleration(env)
    /\ should_download_cuda_env(env)

(* ModelManagementService.download_cuda_environment *)
download_cuda_environment(s) ==
    IF ~s.env.is_windows \/ ~s.env.has_gpu THEN s
    ELSE IF s.dl THEN s
    ELSE [s EXCEPT !.dl = TRUE]

(* WhisperManager.create_transcription_worker and TranscriptionWorker.__init__. *)
(* The worker keeps a reference to the service's TranscriptionParameters       *)
(* object: `parameters` is the value that object has for the worker, first as  *)
(* it was when the worker was created, then as the strategy read it.           *)
create_transcription_worker(precompiled, parameters) ==
    [pc |-> "spawned",
     _is_canceled |-> FALSE,
     parameters |-> parameters,
     strategy |-> IF precompiled THEN PRECOMPILED ELSE PYTHON,
     segs |-> MaxSegments,
     result |-> "none",
     error |-> NO_ERROR]

(* transcribe_task, lines 453-486: model_service.get_model_data gave a model *)
(* that exists (present), or no data / a model whose is_exists is false      *)
ModelLookup(s, id, present) ==
    [s EXCEPT !.ml = Append(@, [task_id |-> id, present |-> present])]

(* the mutation: the environment is not probed again at the job start *)
transcribe_task_environment_not_refreshed(s, id, dev, model_ok, h) ==
    IF id \in s.at THEN s
    ELSE IF ~model_ok
    THEN _handle_transcription_error(ModelLookup(s, id, model_ok), id, ERR_MODEL)
    ELSE
        LET up == SelectStrategy(dev, s.env)
            s1 == [ModelLookup(s, id, model_ok) EXCEPT
                       !.at = @ \cup {id}, !.up = up]
            s2 == IF TriggersDownload(dev, s.env)
                  THEN [download_cuda_environment(s1) EXCEPT !.trig = @ + 1]
                  ELSE s1
        IN  [s2 EXCEPT !.aw = @ \cup {id},
                       !.w = Put(@, id, create_transcription_worker(s2.up, dev))]

(* the mutation: the job is started whatever the model lookup gave *)
transcribe_task_model_unchecked(s, id, dev, model_ok, h) ==
    IF id \in s.at THEN s
    ELSE
        LET env == Detect(h)
            up == SelectStrategy(dev, env)
            s1 == [ModelLookup(s, id, model_ok) EXCEPT
                       !.at = @ \cup {id}, !.env = env, !.up = up]
            s2 == IF TriggersDownload(dev, env)
                  THEN [download_cuda_environment(s1) EXCEPT !.trig = @ + 1]
                  ELSE s1
        IN  [s2 EXCEPT !.aw = @ \cup {id},
                       !.w = Put(@, id, create_transcription_worker(s2.up, dev))]

transcribe_task(s, id, dev, model_ok, h) ==
    IF id \in s.at THEN s
    ELSE IF ~model_ok
    THEN _handle_transcription_error(ModelLookup(s, id, model_ok), id, ERR_MODEL)
    ELSE
        LET env == Detect(h)
            up == SelectStrategy(dev, env)
            s1 == [ModelLookup(s, id, model_ok) EXCEPT
                       !.at = @ \cup {id}, !.env = env, !.up = up]
            s2 == IF TriggersDownload(dev, env)
                  THEN [download_cuda_environment(s1) EXCEPT !.trig = @ + 1]
                  ELSE s1
        IN  [s2 EXCEPT !.aw = @ \cup {id},
                       !.w = Put(@, id, create_transcription_worker(s2.up, dev))]

RECURSIVE MarkAllWaiting(_, _)
MarkAllWaiting(s, ids) ==
    IF ids = <<>> THEN s
    ELSE MarkAllWaiting(mark_task_as_waiting(s, Head(ids)), Tail(ids))

(* the mutation: with no Waiting job, the Failed and Cancelled jobs are run  *)
(* again                                                                    *)
_handle_request_start_processing_retries(s, dev, model_ok, h) ==
    LET pending_tasks ==
            IF get_pending_tasks(s.tasks) # <<>> THEN get_pending_tasks(s.tasks)
            ELSE Ascending({id \in DOMAIN s.tasks :
                               s.tasks[id].status \in {FAILED, CANCELLED}})
    IN  IF pending_tasks = <<>> THEN s
        ELSE LET first_task_id == pending_tasks[1]
                 s1 == MarkAllWaiting(s, pending_tasks)
                 s2 == start_task(s1, first_task_id)
             IN  transcribe_task(s2, first_task_id, dev, model_ok, h)

(* TaskService._handle_request_start_processing, with the TASK_ASSIGNED      *)
(* event it publishes delivered to TranscriptionService._handle_task_assigned *)
_handle_request_start_processing(s, dev, model_ok, h) ==
    LET pending_tasks == get_pending_tasks(s.tasks)
    IN  IF pending_tasks = <<>> THEN s
        ELSE LET first_task_id == pending_tasks[1]
                 s1 == MarkAllWaiting(s, pending_tasks)
                 s2 == start_task(s1, first_task_id)
             IN  transcribe_task(s2, first_task_id, dev, model_ok, h)

(* TaskView._on_task_completed / _process_next_task *)
_process_next_task(s, dev, model_ok, h) ==
    IF get_pending_tasks(s.tasks) # <<>>
    THEN _handle_request_start_processing(s, dev, model_ok, h)
    ELSE s

(* TaskService.complete_task, with the dispatch of the TASK_STATE_CHANGED    *)
(* event it publishes: TaskView._handle_task_state_changed is called and,   *)
(* for a Completed job with an output path, requests the next start, whose  *)
(* events are dispatched within that call; when it has returned,            *)
(* MainWindow's handler is called with the event                            *)
complete_task(s, id, output_path, dev, model_ok, h) ==
    IF id \notin DOMAIN s.tasks THEN s
    ELSE LET r == SetTaskStatus(s, id, COMPLETED, output_path)
             e == EventOfTask(r, id)
             s1 == Deliver([r EXCEPT !.ev = Append(@, e)],
                           "TaskView", e)
             s2 == IF e.output_path # NO_OUTPUT
                   THEN _process_next_task(s1, dev, model_ok, h)
                   ELSE s1
         IN  Deliver(s2, "MainWindow", e)

(* TranscriptionService._check_and_unload_model: with no entry left in       *)
(* active_tasks, model_service.unload_model() is called and the batch-wide   *)
(* TRANSCRIPTION_COMPLETED event is published. Each call of unload_model is  *)
(* recorded with the worker handles held, the worker threads whose run has   *)
(* not published its event yet, and the jobs of the registry with an active  *)
(* status, all as they are at the call.                                      *)
(* the mutation: the unload is requested at the end of every worker event *)
_check_and_unload_model_unconditional(s) ==
    [s EXCEPT !.unl = Append(@, [handles |-> s.aw,
                                 running |-> {id \in DOMAIN s.w :
                                                s.w[id].pc # "done"},
                                 active |-> get_active_tasks(s.tasks)]),
              !.bc = @ + 1]

_check_and_unload_model(s) ==
    IF s.at = {}
    THEN [s EXCEPT !.unl = Append(@, [handles |-> s.aw,
                                      running |-> {id \in DOMAIN s.w :
                                                     s.w[id].pc # "done"},
                                      active |-> get_active_tasks(s.tasks)]),
                   !.bc = @ + 1]
    ELSE s

(* the mutation: the result of export_transcription_util is not looked at *)
_handle_worker_completed_export_unchecked(s, id, export_success, dev, model_ok, h) ==
    IF id \notin s.at THEN s
    ELSE LET s1 == [s EXCEPT !.aw = @ \ {id},
                             !.exp = Append(@, [task_id |-> id,
                                                success |-> export_success])]
             s2 == complete_task(s1, id, "base.ext", dev, model_ok, h)
         IN  _check_and_unload_model([s2 EXCEPT !.at = @ \ {id}])

_handle_worker_completed(s, id, export_success, dev, model_ok, h) ==
    IF id \notin s.at THEN s
    ELSE LET s1 == [s EXCEPT !.aw = @ \ {id},
                             !.exp = Append(@, [task_id |-> id,
                                                success |-> export_success])]
             s2 == IF export_success
                   THEN complete_task(s1, id, "base.ext", dev, model_ok, h)
                   ELSE _handle_transcription_error(s1, id, ERR_EXPORT)
         IN  _check_and_unload_model([s2 EXCEPT !.at = @ \ {id}])

(* the mutation: event.error is passed on as it came *)
_handle_worker_failed_without_default(s, id, error) ==
    IF id \notin s.at THEN s
    ELSE LET s1 == [s EXCEPT !.aw = @ \ {id}]
             s2 == _handle_transcription_error(s1, id, error)
         IN  _check_and_unload_model([s2 EXCEPT !.at = @ \ {id}])

_handle_worker_failed(s, id, error) ==
    IF id \notin s.at THEN s
    ELSE LET s1 == [s EXCEPT !.aw = @ \ {id}]
             error_msg == IF error # NO_ERROR THEN error ELSE ERR_UNKNOWN
             s2 == _handle_transcription_error(s1, id, error_msg)
         IN  _check_and_unload_model([s2 EXCEPT !.at = @ \ {id}])

(* the mutation: the worker handle is not popped *)
_handle_worker_cancelled_handle_kept(s, id) ==
    IF id \notin s.at THEN s
    ELSE LET s2 == cancel_task(s, id)
         IN  _check_and_unload_model([s2 EXCEPT !.at = @ \ {id}])

_handle_worker_cancelled(s, id) ==
    IF id \notin s.at THEN s
    ELSE LET s1 == [s EXCEPT !.aw = @ \ {id}]
             s2 == cancel_task(s1, id)
         IN  _check_and_unload_model([s2 EXCEPT !.at = @ \ {id}])

RECURSIVE RequestCancelAll(_, _)
RequestCancelAll(s, ids) ==
    IF ids = <<>> THEN s
    ELSE RequestCancelAll(request_cancel_task(s, Head(ids)), Tail(ids))

(* TranscriptionService.cancel_process / TranscriptionWorker.cancel *)
cancel_process(s, id) ==
    IF id \in s.aw THEN [s EXCEPT !.w[id]._is_canceled = TRUE] ELSE s

(* TranscriptionService._handle_request_cancel_processing: for each job it *)
(* runs, an event built from the defaults of TaskStateChangedEvent         *)
(* (progress 0.0, error "", output_path ""), then cancel_process           *)
RECURSIVE CancelProcessAll(_, _)
CancelProcessAll(s, ids) ==
    IF ids = <<>> THEN s
    ELSE CancelProcessAll(
             cancel_process(
                 PublishStateChanged(
                     s, TaskStateChangedEvent(s, Head(ids), CANCELLING, 0,
                                              NO_ERROR, NO_OUTPUT)),
                 Head(ids)),
             Tail(ids))

(* REQUEST_CANCEL_PROCESSING: TaskService's handler, then TranscriptionService's *)
_handle_request_cancel_processing(s) ==
    LET s1 == RequestCancelAll(s, Ascending(get_active_tasks(s.tasks)))
    IN  CancelProcessAll(s1, Ascending(s1.at))

(* ------------------------------------------------------ progress reports *)
(* ProgressCalculator.calculate *)
calculate(end_time, audio_duration) ==
    IF audio_duration <= 0 THEN 0
    ELSE LET ratio == (end_time * ONE) \div audio_duration
         IN  Min({IF ratio >= 0 THEN ratio ELSE 0, ONE})

(* update_progress_with_cancel_check, lines 142-150: the progress published *)
(* for a position                                                           *)
ProgressOf(position, audio_duration) ==
    IF position <= ONE THEN position
    ELSE calculate(position, audio_duration)

(* the position a strategy passes for a segment that ends at end_time: the  *)
(* in-process one passes segment.end, the subprocess one the fraction it    *)
(* computed                                                                 *)
PositionOf(strategy, end_time, audio_duration) ==
    IF strategy = PRECOMPILED THEN calculate(end_time, audio_duration)
    ELSE end_time

(* TranscriptionContext.__init__; no context yet *)
NoContext ==
    [strategy |-> PYTHON, audio_duration |-> 0, end |-> 0, reports |-> <<>>,
     _is_canceled |-> FALSE, pc |-> "none"]

(* ------------------------------------------------------------ timestamps *)
(* Strings are sequences of characters. Seconds are counted in thousandths, *)
(* and the floating-point arithmetic of the code is taken to be exact.      *)
DigitChars == <<"0", "1", "2", "3", "4", "5", "6", "7", "8", "9">>

(* int(text) of a text of decimal digits *)
RECURSIVE ParseInt(_)
ParseInt(text) ==
    IF text = <<>> THEN 0
    ELSE ParseInt(SubSeq(text, 1, Len(text) - 1)) * 10
         + (CHOOSE d \in 0..9 : DigitChars[d + 1] = text[Len(text)])

(* str.split(sep) *)
RECURSIVE Split(_, _)
Split(text, sep) ==
    IF ~Contains(text, sep) THEN <<text>>
    ELSE LET i == Min({k \in 1..Len(text) : text[k] = sep})
         IN  <<SubSeq(text, 1, i - 1)>>
             \o Split(SubSeq(text, i + 1, Len(text)), sep)

(* str.ljust(width, "0") *)
RECURSIVE LJust(_, _)
LJust(text, width) ==
    IF Len(text) >= width THEN text ELSE LJust(Append(text, "0"), width)

(* TranscriptParser.time_str_to_seconds, in thousandths of a second; -1 is *)
(* the ValueError                                                          *)
time_str_to_seconds(time_str) ==
    LET parts == Split(time_str, ":")
        hours == IF Len(parts) = 3 THEN ParseInt(parts[1]) ELSE 0
        minutes == IF Len(parts) = 3 THEN ParseInt(parts[2])
                   ELSE ParseInt(parts[1])
        seconds_part == parts[Len(parts)]
        sec_millisec == Split(seconds_part, ".")
        millisec_str == IF Len(sec_millisec[2]) > 3
                        THEN SubSeq(sec_millisec[2], 1, 3)
                        ELSE LJust(sec_millisec[2], 3)
    IN  IF Len(parts) \notin {2, 3} THEN -1
        ELSE IF Len(sec_millisec) # 2 THEN -1
        ELSE (hours * 3600 + minutes * 60 + ParseInt(sec_millisec[1])) * 1000
             + ParseInt(millisec_str)

(* str(n) of a natural number *)
RECURSIVE Str(_)
Str(n) ==
    IF n < 10 THEN <<DigitChars[n + 1]>>
    ELSE Str(n \div 10) \o <<DigitChars[(n % 10) + 1]>>

(* the format specification 0{width}d *)
RECURSIVE ZeroPadded(_, _)
ZeroPadded(text, width) ==
    IF Len(text) >= width THEN text ELSE ZeroPadded(<<"0">> \o text, width)

(* format_timestamp of the in-process strategy: mm:ss.xxx *)
format_timestamp(seconds) ==
    LET milliseconds == seconds
        minutes == milliseconds \div 60000
        secs == (milliseconds % 60000) \div 1000
        ms == milliseconds % 1000
    IN  ZeroPadded(Str(minutes), 2) \o <<":">> \o ZeroPadded(Str(secs), 2)
        \o <<".">> \o ZeroPadded(Str(ms), 3)

(* export_utils._format_timestamp: hh:mm:ss.xxx (vtt) or hh:mm:ss,xxx (srt) *)
_format_timestamp(seconds, format_type) ==
    LET milliseconds == seconds % 1000
        whole == seconds \div 1000
        s == whole % 60
        m == (whole \div 60) % 60
        h == (whole \div 60) \div 60
    IN  ZeroPadded(Str(h), 2) \o <<":">> \o ZeroPadded(Str(m), 2) \o <<":">>
        \o ZeroPadded(Str(s), 2)
        \o (IF format_type = "vtt" THEN <<".">> ELSE <<",">>)
        \o ZeroPadded(Str(milliseconds), 3)

(* the timestamps read: hh:mm:ss.xxx and mm:ss.xxx, among them the         *)
(* 00:01:05.250 and 5:00.000 of the subprocess output                      *)
TimeStrings ==
    LET hh == {<<"0", "0">>, <<"0", "1">>}
        mm == {<<"0", "0">>, <<"0", "1">>, <<"5", "9">>}
        ss == {<<"0", "0">>, <<"0", "5">>, <<"5", "9">>}
        xxx == {<<"0", "0", "0">>, <<"2", "5", "0">>, <<"9", "9", "9">>}
        minutes == {<<"5">>, <<"0", "5">>, <<"7", "5">>}
    IN  {h \o <<":">> \o m \o <<":">> \o s \o <<".">> \o x :
            h \in hh, m \in mm, s \in ss, x \in xxx}
        \cup {m \o <<":">> \o s \o <<".">> \o x :
                 m \in minutes, s \in ss, x \in xxx}

NoProcess ==
    [pc |-> "none", exe |-> FALSE, child |-> "none", returncode |-> "0",
     json |-> "none", written |-> 0, read |-> 0, _is_canceled |-> FALSE,
     success |-> FALSE, error |-> NO_ERROR, stderr_thread |-> "none"]

NoTimestamp ==
    [pc |-> "none", time_str |-> <<>>, seconds |-> 0, mm_ss |-> <<>>,
     hh_mm_ss |-> <<>>]

(* --------------------------------------------------- EnvironmentService *)
(* refresh: the old values are kept, _detect_environment probes the host   *)
(* again and publishes ENVIRONMENT_STATUS_CHANGED, then the old and the    *)
(* new values are compared for the result has_changes. Nothing sets        *)
(* python_deps_available, which is not modelled.                           *)
(* the probes of the host that can raise: the NVML calls of               *)
(* _detect_gpu_hardware, and Path.exists / is_file on the executable       *)

(* _detect_environment on a host where the probes of `raising` raise, on   *)
(* the EnvironmentInfo object whose fields are env. _detect_gpu catches    *)
(* what the NVML probe raises and sets has_gpu to False. Nothing catches   *)
(* what check_whisper_app_available raises: the exception leaves           *)
(* _detect_environment before whisper_app_available is assigned and before *)
(* the event is published.                                                 *)
_detect_environment(env, h, raising) ==
    LET has_gpu == env.is_windows /\ h.gpu /\ "gpu" \notin raising
    IN  IF "whisper_app" \in raising
        THEN [info |-> [env EXCEPT !.has_gpu = has_gpu],
              raised |-> TRUE, published |-> 0]
        ELSE [info |-> [env EXCEPT !.has_gpu = has_gpu,
                                   !.whisper_app_available = h.app],
              raised |-> FALSE, published |-> 1]

refresh(env, h, raising) ==
    LET old_info == env
        d == _detect_environment(env, h, raising)
        new_info == d.info
    IN  [called |-> TRUE,
         raising |-> raising,
         old_info |-> old_info,
         new_info |-> new_info,
         raised |-> d.raised,
         has_changes |-> /\ ~d.raised
                         /\ \/ old_info.has_gpu # new_info.has_gpu
                            \/ old_info.whisper_app_available
                                   # new_info.whisper_app_available,
         published |-> d.published]

(* no call of refresh yet; `got` is the EnvironmentInfo a caller was given *)
(* by get_environment_info and `seen` the fields it read from it then      *)
NoRefresh ==
    [called |-> FALSE, raising |-> {}, old_info |-> Detect(DefaultHost),
     new_info |-> Detect(DefaultHost), raised |-> FALSE,
     has_changes |-> FALSE, published |-> 0,
     got |-> "none", seen |-> Detect(DefaultHost)]


(* -------------------------------------------------------------- EventBus *)
(* the topics published on (EventTypes) and the handlers of the program *)
Topics == {"task_state_changed", "cuda_env_install_completed"}

Handlers == 1..MaxHandlers

(* EventBus.__init__: no subscriber, nothing dispatched *)
NoBus ==
    [_subscribers |-> [t \in {} |-> <<>>], event_name |-> "none",
     raises |-> {}, once |-> {}, subscribed |-> <<>>, invoked |-> <<>>]

(* list.remove: the first occurrence is taken out *)
Remove(list, x) ==
    LET i == Min({k \in 1..Len(list) : list[k] = x})
    IN  [k \in 1..(Len(list) - 1) |-> IF k < i THEN list[k] ELSE list[k + 1]]

subscribe(subs, event_name, handler) ==
    LET s1 == IF event_name \notin DOMAIN subs
              THEN Put(subs, event_name, <<>>) ELSE subs
    IN  IF ~Contains(s1[event_name], handler)
        THEN [s1 EXCEPT ![event_name] = Append(@, handler)]
        ELSE s1

unsubscribe(subs, event_name, handler) ==
    IF event_name \in DOMAIN subs /\ Contains(subs[event_name], handler)
    THEN [subs EXCEPT ![event_name] = Remove(@, handler)]
    ELSE subs

(* the call of one handler and how it ended *)
Call(handler, raises) == [handler |-> handler, raised |-> handler \in raises]

(* the for loop of _dispatch_event from the i-th subscriber on, over the   *)
(* list as it is at each turn: a handler that raises is logged and the loop *)
(* goes on; a handler of `once` unsubscribes itself when it is called, as   *)
(* _on_install_completed does, which takes it out of the list the loop goes *)
(* through. The result is the calls made and the list left.                 *)
RECURSIVE DispatchFrom(_, _, _, _)
DispatchFrom(list, i, raises, once) ==
    IF i > Len(list) THEN [invoked |-> <<>>, list |-> list]
    ELSE LET handler == list[i]
             rest == DispatchFrom(IF handler \in once
                                  THEN Remove(list, handler) ELSE list,
                                  i + 1, raises, once)
         IN  [invoked |-> <<Call(handler, raises)>> \o rest.invoked,
              list |-> rest.list]

_dispatch_event(subs, event_name, raises, once) ==
    IF event_name \in DOMAIN subs
    THEN LET d == DispatchFrom(subs[event_name], 1, raises, once)
         IN  [invoked |-> d.invoked,
              _subscribers |-> [subs EXCEPT ![event_name] = d.list]]
    ELSE [invoked |-> <<>>, _subscribers |-> subs]

(* ------------------------------------------------------------------ Init *)
Constructed ==
    /\ tasks = [x \in {} |-> NewTask]
    /\ task_counter = 1
    /\ active_tasks = {}
    /\ active_workers = {}
    /\ workers = [x \in {} |-> create_transcription_worker(FALSE, device)]
    /\ queue = <<>>
    /\ environment_info = Detect(host)
    /\ use_precompiled = FALSE
    /\ cuda_downloader = FALSE
    /\ log = <<>>
    /\ exports = <<>>
    /\ model_lookups = <<>>
    /\ cuda_triggers = 0
    /\ unload_requests = <<>>
    /\ batch_completed = 0
    /\ state_events = <<>>
    /\ process_info = <<>>
    /\ terminated = {}
    /\ delivered = NoDeliveries
    (* TaskService.__init__: no job, the counter at 1; `now` is the clock  *)
    (* in seconds, `last` the id given to the job created last and whether *)
    (* the registry held a job of that id already                          *)
    /\ registry =
         [tasks |-> {}, task_counter |-> 1, now |-> 0,
          last |-> [created |-> FALSE, id |-> <<>>, existed |-> FALSE]]
    /\ file_paths = <<>>
    /\ added_task_ids = <<>>
    /\ handled = "none"
    /\ bus = NoBus
    /\ refreshed = NoRefresh

Init ==
    /\ host = DefaultHost
    /\ device = "auto"
    /\ context = NoContext
    /\ timestamp = NoTimestamp
    /\ process = NoProcess
    /\ Constructed

(* a worker has been created for a file of some duration and its run begins *)
InitProgress ==
    /\ host = DefaultHost
    /\ device = "auto"
    /\ timestamp = NoTimestamp
    /\ process = NoProcess
    /\ context \in [strategy : {PYTHON, PRECOMPILED}, audio_duration : Times,
                     end : {0}, reports : {<<>>}, _is_canceled : {FALSE},
                     pc : {"running"}]
    /\ Constructed

InitStrategy ==
    /\ host \in Hosts
    /\ device \in Devices
    /\ context = NoContext
    /\ timestamp = NoTimestamp
    /\ process = NoProcess
    /\ Constructed

InitHost ==
    /\ host \in {h \in Hosts : h.is_windows /\ h.gpu}
    /\ device \in Devices
    /\ context = NoContext
    /\ timestamp = NoTimestamp
    /\ process = NoProcess
    /\ Constructed

(* -------------------------------------- actions of the coordinating thread *)
(* A path of an add request, by the outcome of the checks made on it: an   *)
(* existing file the media-type checks pass, an existing file they turn    *)
(* away, a path that does not exist. PathKind computes it for a file name. *)
PathLists ==
    UNION {[1..n -> {"media", "text", "missing"}] : n \in 1..MaxPaths}

(* REQUEST_ADD_TASKS, the outcome of the checks on each path being an input *)
RequestAddTasks(paths, limit) ==
    LET st == add_tasks([tasks |-> tasks, counter |-> task_counter], paths)
    IN  /\ st.counter <= limit + 1
        /\ tasks' = st.tasks
        /\ task_counter' = st.counter
        /\ NoCalls
        /\ UNCHANGED <<active_tasks, active_workers, workers, queue, host,
                       environment_info, device, use_precompiled,
                       cuda_downloader>>

(* REQUEST_ADD_TASKS with the files named, and what add_tasks returns *)

RequestAddFiles(files) ==
    LET paths == [i \in 1..Len(files) |-> PathKind(files[i])]
        st == add_tasks([tasks |-> tasks, counter |-> task_counter], paths)
    IN  /\ st.counter <= MaxFiles + 1
        /\ tasks' = st.tasks
        /\ task_counter' = st.counter
        /\ file_paths' = files
        /\ added_task_ids' =
               [i \in 1..(st.counter - task_counter) |-> task_counter + i - 1]
        /\ log' = <<>>
        /\ exports' = <<>>
        /\ model_lookups' = <<>>
        /\ cuda_triggers' = 0
        /\ unload_requests' = <<>>
        /\ batch_completed' = 0
        /\ state_events' = <<>>
        /\ process_info' = <<>>
        /\ delivered' = NoDeliveries
        /\ terminated' = terminated
        /\ handled' = "none"
        /\ UNCHANGED <<context, units>>
        /\ UNCHANGED <<active_tasks, active_workers, workers, queue, host,
                       environment_info, device, use_precompiled,
                       cuda_downloader>>

RequestRemoveTask(id) ==
    /\ id \in DOMAIN tasks
    /\ tasks' = remove_task(tasks, id)
    /\ NoCalls
    /\ UNCHANGED <<task_counter, active_tasks, active_workers, workers, queue,
                   host, environment_info, device, use_precompiled,
                   cuda_downloader>>

RequestClearTasks ==
    /\ DOMAIN tasks # {}
    /\ tasks' = clear_all_tasks(tasks)
    /\ NoCalls
    /\ UNCHANGED <<task_counter, active_tasks, active_workers, workers, queue,
                   host, environment_info, device, use_precompiled,
                   cuda_downloader>>

RequestStartProcessing(model_ok) ==
    /\ Install(_handle_request_start_processing(Snapshot, device, model_ok, host))
    /\ handled' = "REQUEST_START_PROCESSING"
    /\ UNCHANGED <<task_counter, queue, host, device>>

RequestCancelProcessing ==
    /\ Install(_handle_request_cancel_processing(Snapshot))
    /\ handled' = "REQUEST_CANCEL_PROCESSING"
    /\ UNCHANGED <<task_counter, queue, host, device>>

(* TranscriptionService._on_config_changed, key "device" *)
ConfigChanged(value) ==
    /\ value # device
    /\ device' = value
    /\ NoCalls
    /\ UNCHANGED <<tasks, task_counter, active_tasks, active_workers, workers,
                   queue, host, environment_info, use_precompiled,
                   cuda_downloader>>

(* ModelManagementService._on_cuda_env_download_completed: the download (and  *)
(* the installation it starts) ends; on success the executable is in place.  *)
(* Both services then refresh the shared EnvironmentInfo.                    *)
CudaEnvDownloadCompleted(success) ==
    /\ cuda_downloader
    /\ cuda_downloader' = FALSE
    /\ host' = IF success THEN [host EXCEPT !.app = TRUE] ELSE host
    /\ environment_info' = Detect(host')
    /\ NoCalls
    /\ UNCHANGED <<tasks, task_counter, active_tasks, active_workers, workers,
                   queue, device, use_precompiled>>

(* The whisper executable appears in, or disappears from, the place          *)
(* check_whisper_app_available looks at; no service is told.                 *)
WhisperAppChanged(present) ==
    /\ host.app # present
    /\ host' = [host EXCEPT !.app = present]
    /\ NoCalls
    /\ UNCHANGED <<tasks, task_counter, active_tasks, active_workers, workers,
                   queue, environment_info, device, use_precompiled,
                   cuda_downloader>>

(* EventBus._dispatch_event of a queued WORKER_* event; the thread that sent  *)
(* it has finished and its handle was popped by the handler.                 *)
DeliverWorkerEvent(export_success, model_ok) ==
    /\ queue # <<>>
    /\ Head(queue).type # "transcription_process_info"
    /\ LET e == Head(queue)
           s == CASE e.type = "WORKER_COMPLETED" ->
                       _handle_worker_completed(Snapshot, e.task_id,
                                                export_success, device,
                                                model_ok, host)
                  [] e.type = "WORKER_FAILED" ->
                       _handle_worker_failed(Snapshot, e.task_id, e.error)
                  [] e.type = "WORKER_CANCELLED" ->
                       _handle_worker_cancelled(Snapshot, e.task_id)
       IN  Install([s EXCEPT !.w = [x \in DOMAIN @ \ {e.task_id} |-> @[x]]])
    /\ queue' = Tail(queue)
    /\ handled' = "none"
    /\ UNCHANGED <<task_counter, host, device>>

(* ------------------------------------------- actions of a worker thread *)
(* _execute_internal starts: the strategy reads context.parameters, the     *)
(* object the service shares with it, as it is at that moment.              *)
StrategyBegin(id) ==
    /\ id \in DOMAIN workers
    /\ workers[id].pc = "spawned"
    /\ workers' = [workers EXCEPT ![id].pc = "running",
                                  ![id].parameters = device]
    /\ NoCalls
    /\ UNCHANGED <<tasks, task_counter, active_tasks, active_workers, queue,
                   host, environment_info, device, use_precompiled,
                   cuda_downloader>>

(* The strategy reaches a checkpoint (update_progress_with_cancel_check for  *)
(* the next segment, or context.should_cancel() for the next stdout line):   *)
(* a cancelled context makes the strategy return without success. The       *)
(* progress event of the checkpoint has no subscriber among the services;   *)
(* ReportProgress is this step together with that event.                    *)
StrategyCheckpoint(id) ==
    /\ id \in DOMAIN workers
    /\ workers[id].pc = "running"
    /\ workers[id].segs > 0
    /\ workers' =
         IF workers[id]._is_canceled
         THEN [workers EXCEPT ![id].pc = "returned", ![id].segs = 0,
                              ![id].result = "failed",
                              ![id].error = ERR_CANCELLED]
         ELSE [workers EXCEPT ![id].segs = @ - 1]
    /\ NoCalls
    /\ UNCHANGED <<tasks, task_counter, active_tasks, active_workers, queue,
                   host, environment_info, device, use_precompiled,
                   cuda_downloader>>

(* The error message TranscriptionWorker.run has after strategy.execute:     *)
(* the one the strategy reported with its failure, the one execute makes of *)
(* an exception it caught, or the one run makes of an exception that        *)
(* escaped execute (raised by the cleanup of its finally clause).           *)
ErrorMessage(outcome, message) ==
    CASE outcome = "success" -> NO_ERROR
      [] outcome = "reported" -> message
      [] outcome = "raised" -> "strategy failed: " \o message
      [] outcome = "crashed" -> "transcription exception: " \o message

(* strategy.execute returns: success once the output is exhausted, failure   *)
(* (an error or an exception) at any point.                                  *)
StrategyReturn(id, outcome, message) ==
    /\ id \in DOMAIN workers
    /\ workers[id].pc = "running"
    /\ outcome = "success" => workers[id].segs = 0
    /\ workers' = [workers EXCEPT ![id].pc = "returned", ![id].segs = 0,
                                  ![id].result = IF outcome = "success"
                                                 THEN "success"
                                                 ELSE "failed",
                                  ![id].error = ErrorMessage(outcome, message)]
    /\ NoCalls
    /\ UNCHANGED <<tasks, task_counter, active_tasks, active_workers, queue,
                   host, environment_info, device, use_precompiled,
                   cuda_downloader>>

(* the mutation: the newest event is delivered first *)
Post_first(q, e) == <<e>> \o q

(* event_occurred.emit in a worker thread: the connection is queued, the   *)
(* event is posted behind the events the coordinating thread has not       *)
(* handled yet                                                             *)
Post(q, e) == Append(q, e)

(* TranscriptionWorker.run, lines 244-257: the event published for a result *)
WorkerEventType(w) ==
    IF w._is_canceled THEN "WORKER_CANCELLED"
    ELSE IF w.result = "success" THEN "WORKER_COMPLETED"
    ELSE "WORKER_FAILED"

WorkerPublish(id) ==
    /\ id \in DOMAIN workers
    /\ workers[id].pc = "returned"
    /\ queue' = Post(queue,
                     [type |-> WorkerEventType(workers[id]),
                      task_id |-> id,
                      error |-> IF WorkerEventType(workers[id]) = "WORKER_FAILED"
                                THEN workers[id].error ELSE NO_ERROR])
    /\ workers' = [workers EXCEPT ![id].pc = "done"]
    /\ NoCalls
    /\ UNCHANGED <<tasks, task_counter, active_tasks, active_workers, host,
                   environment_info, device, use_precompiled, cuda_downloader>>

(* update_progress_with_cancel_check for a segment, with the event it      *)
(* publishes from the worker thread: a cancelled context makes the strategy *)
(* return, otherwise the progress is published as TRANSCRIPTION_PROCESS_INFO *)
ReportProgress(id) ==
    /\ id \in DOMAIN workers
    /\ workers[id].pc = "running"
    /\ workers[id].segs > 0
    /\ workers' =
         IF workers[id]._is_canceled
         THEN [workers EXCEPT ![id].pc = "returned", ![id].segs = 0,
                              ![id].result = "failed",
                              ![id].error = ERR_CANCELLED]
         ELSE [workers EXCEPT ![id].segs = @ - 1]
    /\ queue' =
         IF workers[id]._is_canceled THEN queue
         ELSE Post(queue, [type |-> "transcription_process_info",
                           task_id |-> id,
                           progress |->
                               ProgressOf(((MaxSegments + 1
                                              - workers[id].segs) * ONE)
                                            \div MaxSegments, ONE)])
    /\ NoCalls
    /\ UNCHANGED <<tasks, task_counter, active_tasks, active_workers, host,
                   environment_info, device, use_precompiled, cuda_downloader>>

(* EventBus._dispatch_event of a queued progress event *)
DeliverProgress ==
    /\ queue # <<>>
    /\ Head(queue).type = "transcription_process_info"
    /\ Install(DispatchProgress(Snapshot, Head(queue)))
    /\ queue' = Tail(queue)
    /\ handled' = "none"
    /\ UNCHANGED <<task_counter, host, device>>

(* ------------------------------------------------------- job lifecycle *)
Next ==
    \/ \E paths \in PathLists : RequestAddTasks(paths, MaxJobs)
    \/ \E id \in DOMAIN tasks : RequestRemoveTask(id)
    \/ RequestClearTasks
    \/ \E model_ok \in BOOLEAN : RequestStartProcessing(model_ok)
    \/ RequestCancelProcessing
    \/ \E export_success \in BOOLEAN, model_ok \in BOOLEAN :
          DeliverWorkerEvent(export_success, model_ok)
    \/ \E id \in DOMAIN workers : StrategyBegin(id)
    \/ \E id \in DOMAIN workers : StrategyCheckpoint(id)
    \/ \E id \in DOMAIN workers, r \in PlainResults :
          StrategyReturn(id, r[1], r[2])
    \/ \E id \in DOMAIN workers : WorkerPublish(id)

Spec == Init /\ [][Next]_vars

(* --------------------------------- strategy selection on every host *)
NextStrategy ==
    \/ \E paths \in PathLists : RequestAddTasks(paths, MaxJobs)
    \/ \E model_ok \in BOOLEAN : RequestStartProcessing(model_ok)
    \/ \E success \in BOOLEAN : CudaEnvDownloadCompleted(success)
    \/ \E export_success \in BOOLEAN, model_ok \in BOOLEAN :
          DeliverWorkerEvent(export_success, model_ok)
    \/ \E id \in DOMAIN workers : StrategyBegin(id)
    \/ \E id \in DOMAIN workers : StrategyCheckpoint(id)
    \/ \E id \in DOMAIN workers, r \in PlainResults :
          StrategyReturn(id, r[1], r[2])
    \/ \E id \in DOMAIN workers : WorkerPublish(id)

SpecStrategy == InitStrategy /\ [][NextStrategy]_vars

(* ------- the executable comes and goes on a Windows host that has a GPU *)
NextHost ==
    \/ \E paths \in PathLists : RequestAddTasks(paths, MaxJobs)
    \/ \E model_ok \in BOOLEAN : RequestStartProcessing(model_ok)
    \/ \E present \in BOOLEAN : WhisperAppChanged(present)
    \/ \E export_success \in BOOLEAN, model_ok \in BOOLEAN :
          DeliverWorkerEvent(export_success, model_ok)
    \/ \E id \in DOMAIN workers : StrategyBegin(id)
    \/ \E id \in DOMAIN workers : StrategyCheckpoint(id)
    \/ \E id \in DOMAIN workers, r \in PlainResults :
          StrategyReturn(id, r[1], r[2])
    \/ \E id \in DOMAIN workers : WorkerPublish(id)

SpecHost == InitHost /\ [][NextHost]_vars

(* ------------------------- settings changed while jobs are running *)
NextConfig ==
    \/ \E paths \in PathLists : RequestAddTasks(paths, MaxJobs)
    \/ \E model_ok \in BOOLEAN : RequestStartProcessing(model_ok)
    \/ \E value \in Devices : ConfigChanged(value)
    \/ \E export_success \in BOOLEAN, model_ok \in BOOLEAN :
          DeliverWorkerEvent(export_success, model_ok)
    \/ \E id \in DOMAIN workers : StrategyBegin(id)
    \/ \E id \in DOMAIN workers : StrategyCheckpoint(id)
    \/ \E id \in DOMAIN workers, r \in PlainResults :
          StrategyReturn(id, r[1], r[2])
    \/ \E id \in DOMAIN workers : WorkerPublish(id)

SpecConfig == Init /\ [][NextConfig]_vars

(* ------------------------- runs whose workers report their progress *)
NextReport ==
    \/ RequestAddTasks(<<"media">>, MaxJobs)
    \/ RequestStartProcessing(TRUE)
    \/ RequestCancelProcessing
    \/ DeliverWorkerEvent(TRUE, TRUE)
    \/ DeliverProgress
    \/ \E id \in DOMAIN workers : StrategyBegin(id)
    \/ \E id \in DOMAIN workers : ReportProgress(id)
    \/ \E id \in DOMAIN workers : StrategyReturn(id, "success", "")
    \/ \E id \in DOMAIN workers : WorkerPublish(id)

SpecReport == Init /\ [][NextReport]_vars

(* ------------------------ a longer batch that is started and left to run *)
NextBatch ==
    \/ \E paths \in PathLists : RequestAddTasks(paths, MaxBatch)
    \/ \E model_ok \in BOOLEAN : RequestStartProcessing(model_ok)
    \/ \E export_success \in BOOLEAN, model_ok \in BOOLEAN :
          DeliverWorkerEvent(export_success, model_ok)
    \/ \E id \in DOMAIN workers : StrategyBegin(id)
    \/ \E id \in DOMAIN workers : StrategyCheckpoint(id)
    \/ \E id \in DOMAIN workers, r \in PlainResults :
          StrategyReturn(id, r[1], r[2])
    \/ \E id \in DOMAIN workers : WorkerPublish(id)

SpecBatch == Init /\ [][NextBatch]_vars

(* ------------------------------------- every way a run can end in failure *)
NextErrors ==
    \/ \E paths \in PathLists : RequestAddTasks(paths, MaxJobs)
    \/ \E model_ok \in BOOLEAN : RequestStartProcessing(model_ok)
    \/ \E export_success \in BOOLEAN, model_ok \in BOOLEAN :
          DeliverWorkerEvent(export_success, model_ok)
    \/ \E id \in DOMAIN workers : StrategyBegin(id)
    \/ \E id \in DOMAIN workers : StrategyCheckpoint(id)
    \/ \E id \in DOMAIN workers,
          r \in {<<"success", "">>}
                 \cup ({"reported", "raised", "crashed"}
                           \X {"", "no audio stream"}) :
          StrategyReturn(id, r[1], r[2])
    \/ \E id \in DOMAIN workers : WorkerPublish(id)

SpecErrors == Init /\ [][NextErrors]_vars

(* ----------------------------------- the progress a run publishes *)
(* The backend gives the next segment, which ends at end_time, and the      *)
(* strategy calls update_progress_with_cancel_check: a cancelled context    *)
(* publishes nothing and the strategy returns.                              *)
SegmentProduced(end_time) ==
    /\ context.pc = "running"
    /\ Len(context.reports) < MaxReports
    /\ end_time >= context.end
    /\ context' =
         IF context._is_canceled
         THEN [context EXCEPT !.pc = "returned"]
         ELSE [context EXCEPT
                 !.end = end_time,
                 !.reports =
                     Append(@, ProgressOf(PositionOf(context.strategy, end_time,
                                                     context.audio_duration),
                                          context.audio_duration))]
    /\ UNCHANGED <<tasks, task_counter, active_tasks, active_workers, workers,
                   queue, host, environment_info, device, use_precompiled,
                   cuda_downloader, log, exports, model_lookups, cuda_triggers,
                   file_paths, added_task_ids, handled, unload_requests,
                   batch_completed, state_events, process_info, terminated, delivered,
                   units>>

(* TranscriptionWorker.cancel, seen by the context through its callback *)
ContextCancel ==
    /\ context.pc = "running"
    /\ ~context._is_canceled
    /\ context' = [context EXCEPT !._is_canceled = TRUE]
    /\ UNCHANGED <<tasks, task_counter, active_tasks, active_workers, workers,
                   queue, host, environment_info, device, use_precompiled,
                   cuda_downloader, log, exports, model_lookups, cuda_triggers,
                   file_paths, added_task_ids, handled, unload_requests,
                   batch_completed, state_events, process_info, terminated, delivered,
                   units>>

NextProgress ==
    \/ \E end_time \in Times : SegmentProduced(end_time)
    \/ ContextCancel

SpecProgress == InitProgress /\ [][NextProgress]_vars

(* ------------------------------------- a run of the subprocess strategy *)

(* _execute_internal is about to run: the executable is in place or not,  *)
(* and the child will end as `returncode` and `json` say: the exit code   *)
(* is 0, a failure, or the Windows code the strategy lets pass; the child *)
(* leaves in context.temp_dir the file named after the audio file,        *)
(* another .json file, or no .json file                                   *)
InitProcess ==
    /\ host = DefaultHost
    /\ device = "auto"
    /\ context = NoContext
    /\ timestamp = NoTimestamp
    /\ process \in [pc : {"called"}, exe : BOOLEAN, child : {"none"},
                     returncode : {"0", "1", "3221226505"},
                     json : {"audio_name", "other", "none"},
                     written : {0}, read : {0}, _is_canceled : {FALSE},
                     success : {FALSE}, error : {NO_ERROR},
                     stderr_thread : {"none"}]
    /\ Constructed

ProcessOnly ==
    UNCHANGED <<tasks, task_counter, active_tasks, active_workers, workers,
                queue, host, environment_info, device, use_precompiled,
                cuda_downloader, log, exports, model_lookups, cuda_triggers,
                file_paths, added_task_ids, handled, unload_requests,
                batch_completed, state_events, process_info, terminated, delivered,
                context, registry, bus, refreshed, timestamp>>

(* the return of _execute_internal; its finally clause terminates a child  *)
(* that is still running                                                   *)
Return(p, success, error) ==
    [p EXCEPT !.pc = "returned", !.success = success, !.error = error,
              !.child = IF @ = "running" THEN "terminated" ELSE @]

(* lines 561-623: without the executable the run fails, else the child is  *)
(* started                                                                 *)
Popen ==
    /\ process.pc = "called"
    /\ process' = IF ~process.exe
                  THEN Return(process, FALSE, "precompiled application missing")
                  ELSE [process EXCEPT !.pc = "started", !.child = "running"]
    /\ ProcessOnly

(* lines 629-648: a child that has exited already did not start;         *)
(* otherwise the thread that reads the child's stderr is started (a       *)
(* daemon thread, joined nowhere) and the strategy goes on to read stdout *)
Poll ==
    /\ process.pc = "started"
    /\ process' = IF process.child = "exited"
                  THEN Return(process, FALSE,
                              "precompiled application failed to start")
                  ELSE [process EXCEPT !.pc = "reading",
                                       !.stderr_thread = "running"]
    /\ ProcessOnly

(* read_stderr reaches the end of the child's stderr, which the child's   *)
(* end closes, and the thread ends                                        *)
ReadStderrEnd ==
    /\ process.stderr_thread = "running"
    /\ process.child \in {"exited", "terminated"}
    /\ process' = [process EXCEPT !.stderr_thread = "ended"]
    /\ ProcessOnly

(* the child writes a line to its stdout *)
ChildWrite ==
    /\ process.child = "running"
    /\ process.written < MaxLines
    /\ process' = [process EXCEPT !.written = @ + 1]
    /\ ProcessOnly

(* the child exits with its return code, its files written *)
ChildExit ==
    /\ process.child = "running"
    /\ process' = [process EXCEPT !.child = "exited"]
    /\ ProcessOnly

(* lines 651-674: the next line of stdout is read; a cancelled context     *)
(* ends the run                                                            *)
ReadLine ==
    /\ process.pc = "reading"
    /\ process.read < process.written
    /\ process' = IF process._is_canceled
                  THEN Return(process, FALSE, ERR_CANCELLED)
                  ELSE [process EXCEPT !.read = @ + 1]
    /\ ProcessOnly

(* the mutation: the return code is not looked at *)
Outcome_of_any_code(returncode, json) ==
    IF json = "none"
    THEN [success |-> FALSE, error |-> "no JSON result file"]
    ELSE [success |-> TRUE, error |-> NO_ERROR]

(* lines 676-712: the return code is checked, then the JSON file of the    *)
(* child is looked for (the one named after the audio file, else the       *)
(* newest one of the directory)                                            *)
Outcome(returncode, json) ==
    IF returncode # "0" /\ returncode # "3221226505"
    THEN [success |-> FALSE, error |-> "precompiled application failed"]
    ELSE IF json = "none"
    THEN [success |-> FALSE, error |-> "no JSON result file"]
    ELSE [success |-> TRUE, error |-> NO_ERROR]

(* lines 676-712: stdout is at its end, process.wait() has returned *)
Collect ==
    /\ process.pc = "reading"
    /\ process.read = process.written
    /\ process.child = "exited"
    /\ LET r == Outcome(process.returncode, process.json)
       IN  process' = Return(process, r.success, r.error)
    /\ ProcessOnly

(* TranscriptionWorker.cancel while the strategy runs *)
ProcessCancel ==
    /\ process.pc \in {"started", "reading"}
    /\ ~process._is_canceled
    /\ process' = [process EXCEPT !._is_canceled = TRUE]
    /\ ProcessOnly

NextProcess ==
    \/ Popen
    \/ Poll
    \/ ChildWrite
    \/ ChildExit
    \/ ReadLine
    \/ Collect
    \/ ReadStderrEnd
    \/ ProcessCancel

SpecProcess == InitProcess /\ [][NextProcess]_vars

(* --------------------------------------------- timestamps read and written *)
InitTimestamp ==
    /\ host = DefaultHost
    /\ device = "auto"
    /\ context = NoContext
    /\ timestamp \in [pc : {"read"}, time_str : TimeStrings, seconds : {0},
                       mm_ss : {<<>>}, hh_mm_ss : {<<>>}]
    /\ process = NoProcess
    /\ Constructed

(* a timestamp is parsed and the seconds are written again, by              *)
(* format_timestamp and by _format_timestamp for a vtt file                 *)
RoundTrip ==
    /\ timestamp.pc = "read"
    /\ LET seconds == time_str_to_seconds(timestamp.time_str)
       IN  timestamp' =
               IF seconds < 0
               THEN [timestamp EXCEPT !.pc = "ValueError"]
               ELSE [timestamp EXCEPT
                       !.pc = "written",
                       !.seconds = seconds,
                       !.mm_ss = format_timestamp(seconds),
                       !.hh_mm_ss = _format_timestamp(seconds, "vtt")]
    /\ UNCHANGED <<tasks, task_counter, active_tasks, active_workers, workers,
                   queue, host, environment_info, device, use_precompiled,
                   cuda_downloader, log, exports, model_lookups, cuda_triggers,
                   file_paths, added_task_ids, handled, unload_requests,
                   batch_completed, state_events, process_info, terminated, delivered,
                   context, registry, bus, refreshed, process>>

NextTimestamp == RoundTrip

SpecTimestamp == InitTimestamp /\ [][NextTimestamp]_vars

(* ------------------------------------------- the environment refreshed *)
InitRefresh ==
    /\ host \in Hosts
    /\ device = "auto"
    /\ context = NoContext
    /\ timestamp = NoTimestamp
    /\ process = NoProcess
    /\ Constructed

(* the NVML probe starts or stops finding a GPU (a driver is installed or *)
(* fails, a device is attached or removed)                                *)
GpuChanged(present) ==
    /\ host.gpu # present
    /\ host' = [host EXCEPT !.gpu = present]
    /\ NoCalls
    /\ UNCHANGED <<tasks, task_counter, active_tasks, active_workers, workers,
                   queue, environment_info, device, use_precompiled,
                   cuda_downloader>>

(* get_environment_info: the caller is given the service's own             *)
(* EnvironmentInfo object, not a copy of it                                 *)
GetEnvironmentInfo ==
    /\ refreshed.got = "none"
    /\ refreshed' = [NoRefresh EXCEPT !.got = "self.environment_info",
                                      !.seen = environment_info]
    /\ UNCHANGED <<tasks, task_counter, active_tasks, active_workers, workers,
                   queue, host, environment_info, device, use_precompiled,
                   cuda_downloader, log, exports, model_lookups, cuda_triggers,
                   file_paths, added_task_ids, handled, unload_requests,
                   batch_completed, state_events, process_info, terminated, delivered,
                   context, registry, bus, timestamp, process>>

(* EnvironmentService.refresh, as main and the settings view call it, on a *)
(* host where the probes of `raising` raise; _detect_environment assigns   *)
(* to the fields of the object the service holds                           *)
Refresh(raising) ==
    /\ refreshed' = refresh(environment_info, host, raising)
                        @@ [got |-> refreshed.got, seen |-> refreshed.seen]
    /\ environment_info' = refreshed'.new_info
    /\ UNCHANGED <<tasks, task_counter, active_tasks, active_workers, workers,
                   queue, host, device, use_precompiled, cuda_downloader, log,
                   exports, model_lookups, cuda_triggers, file_paths,
                   added_task_ids, handled, unload_requests, batch_completed,
                   state_events, process_info, terminated, delivered, context, registry, bus,
                   timestamp, process>>

NextRefresh ==
    \/ \E present \in BOOLEAN : WhisperAppChanged(present)
    \/ \E present \in BOOLEAN : GpuChanged(present)
    \/ GetEnvironmentInfo
    \/ \E raising \in SUBSET {"gpu", "whisper_app"} : Refresh(raising)

SpecRefresh == InitRefresh /\ [][NextRefresh]_vars

(* ------------------------------------------------------- the event bus *)
(* the rest of the program is left as it is *)
BusOnly ==
    UNCHANGED <<tasks, task_counter, active_tasks, active_workers, workers,
                queue, host, environment_info, device, use_precompiled,
                cuda_downloader, log, exports, model_lookups, cuda_triggers,
                file_paths, added_task_ids, handled, unload_requests,
                batch_completed, state_events, process_info, terminated, delivered,
                context, registry, refreshed, timestamp, process>>

Subscribe(event_name, handler) ==
    /\ bus' = [NoBus EXCEPT
                  !._subscribers = subscribe(bus._subscribers, event_name,
                                             handler)]
    /\ BusOnly

Unsubscribe(event_name, handler) ==
    /\ bus' = [NoBus EXCEPT
                  !._subscribers = unsubscribe(bus._subscribers, event_name,
                                               handler)]
    /\ BusOnly

(* EventBus.publish on the thread the bus lives on: the signal calls        *)
(* _dispatch_event at once. The handlers in `raises` raise an exception    *)
(* when called with this event, the others return; the handlers in `once`  *)
(* unsubscribe themselves from the topic first. `subscribed` is the list   *)
(* of the topic's subscribers at the publish.                              *)
Publish(event_name, raises, once) ==
    /\ LET d == _dispatch_event(bus._subscribers, event_name, raises, once)
       IN  bus' = [bus EXCEPT
                     !.event_name = event_name,
                     !.raises = raises,
                     !.once = once,
                     !.subscribed = IF event_name \in DOMAIN bus._subscribers
                                    THEN bus._subscribers[event_name]
                                    ELSE <<>>,
                     !.invoked = d.invoked,
                     !._subscribers = d._subscribers]
    /\ BusOnly

NextBus ==
    \/ \E t \in Topics, h \in Handlers : Subscribe(t, h)
    \/ \E t \in Topics, h \in Handlers : Unsubscribe(t, h)
    \/ \E t \in Topics, r \in SUBSET Handlers,
          o \in {x \in SUBSET Handlers : Cardinality(x) <= 1} :
          Publish(t, r, o)

SpecBus == Init /\ [][NextBus]_vars

(* ------------------------------------------ the ids of the jobs created *)
RegistryOnly ==
    UNCHANGED <<tasks, task_counter, active_tasks, active_workers, workers,
                queue, host, environment_info, device, use_precompiled,
                cuda_downloader, log, exports, model_lookups, cuda_triggers,
                file_paths, added_task_ids, handled, unload_requests,
                batch_completed, state_events, process_info, terminated,
                delivered, context, bus, refreshed, timestamp, process>>

(* f"task_{self.task_counter}": the id as the numbers its text is made of *)
TaskIdOfCounter(counter) == <<counter>>

(* f"task_{int(time.time())}_{len(self.tasks) + 1}" *)
TaskIdOfTime(seconds, length) == <<seconds, length + 1>>

(* self.tasks[task_id] = task: a job of that id, if there is one, is        *)
(* replaced                                                                *)
Store(r, task_id) ==
    [r EXCEPT !.tasks = @ \cup {task_id},
              !.last = [created |-> TRUE, id |-> task_id,
                        existed |-> task_id \in r.tasks]]

(* TaskService._add_task for a file that passes the checks *)
AddTaskOfBatch ==
    /\ registry.task_counter <= MaxJobs + 1
    /\ registry' = [Store(registry, TaskIdOfCounter(registry.task_counter))
                      EXCEPT !.task_counter = @ + 1]
    /\ RegistryOnly

(* TaskService.add_task *)
AddTask ==
    /\ Cardinality(registry.tasks) <= MaxJobs
    /\ registry' = Store(registry, TaskIdOfTime(registry.now,
                                                Cardinality(registry.tasks)))
    /\ RegistryOnly

(* TaskService.remove_task *)
RegistryRemoveTask(task_id) ==
    /\ task_id \in registry.tasks
    /\ registry' = [registry EXCEPT
                       !.tasks = @ \ {task_id},
                       !.last = [created |-> FALSE, id |-> task_id,
                                 existed |-> TRUE]]
    /\ RegistryOnly

(* a second passes *)
Tick ==
    /\ registry.now < MaxSeconds
    /\ registry' = [registry EXCEPT !.now = @ + 1]
    /\ RegistryOnly

NextIds ==
    \/ AddTaskOfBatch
    \/ AddTask
    \/ \E task_id \in registry.tasks : RegistryRemoveTask(task_id)
    \/ Tick

SpecIds == Init /\ [][NextIds]_vars

(* ------------------------------------------- the files a request can name *)
NextAdd ==
    \E files \in UNION {[1..n -> Files] : n \in 1..MaxFiles} :
        RequestAddFiles(files)

SpecAdd == Init /\ [][NextAdd]_vars

(* ================================================================ claims *)

(* C1: at most one job of the registry has a status in ACTIVE_STATUSES       *)
(* (Preparing, Started, InProgress, Exporting, Cancelling), whatever add,    *)
(* start, cancel and remove requests and worker outcomes came before; a      *)
(* start-processing request made while a job is active starts no other job.  *)
C1_AtMostOneActiveJob == Cardinality(get_active_tasks(tasks)) <= 1

(* C2: the orchestrator holds at most one live worker: active_workers never  *)
(* has more than one entry, also when a start request follows the removal    *)
(* of the running job from the registry.                                     *)
C2_AtMostOneLiveWorker == Cardinality(active_workers) <= 1

(* C3: every status change applied to a job is an edge of                    *)
(* Waiting -> Preparing -> Started -> InProgress -> Exporting -> Completed,  *)
(* with Failed and Cancelling reachable from a job in progress and           *)
(* Cancelling -> Cancelled; a job enters Completed only from Exporting.      *)
C3_StatusChangesFollowTheMachine ==
    LET edges ==
            {<<WAITING, PREPARING>>, <<PREPARING, STARTED>>,
             <<STARTED, IN_PROGRESS>>, <<IN_PROGRESS, EXPORTING>>,
             <<EXPORTING, COMPLETED>>, <<CANCELLING, CANCELLED>>}
            \cup ({PREPARING, STARTED, IN_PROGRESS, EXPORTING}
                  \X {FAILED, CANCELLING})
    IN  \A i \in 1..Len(log) :
            log[i].previous # log[i].status
                => <<log[i].previous, log[i].status>> \in edges

(* C4: a job that is Cancelling takes no status afterwards but Cancelled: no *)
(* step takes it to Completed or Failed, not even the delivery of a          *)
(* completion or failure its worker published before the cancel flag was     *)
(* set.                                                                      *)
C4_CancellingOnlyBecomesCancelled ==
    [][\A id \in DOMAIN tasks :
          tasks[id].status = CANCELLING /\ id \in DOMAIN tasks'
              => tasks'[id].status \in {CANCELLING, CANCELLED}]_vars

(* C5: a cancel request on an active job ends with the job Cancelled: when   *)
(* the worker of a job whose cancellation was requested has finished and the *)
(* orchestrator has handled its last event, dropping the job from            *)
(* active_tasks, the job is Cancelled.                                       *)
C5_CancelledWhenTheWorkerIsGone ==
    [][\A id \in active_tasks :
          /\ id \in DOMAIN workers
          /\ workers[id]._is_canceled
          /\ id \notin active_tasks'
          /\ id \in DOMAIN tasks'
          => tasks'[id].status = CANCELLED]_vars

(* C6: when a started job ends Failed while jobs that were Waiting at the    *)
(* start-processing request are still Waiting and nothing was cancelled, the *)
(* engine starts the next Waiting job (or a job is still running whose end   *)
(* can start it): the batch is not left idle with Waiting jobs.              *)
C6_FailureDoesNotHaltTheBatch ==
    [][\A k \in DOMAIN tasks :
          /\ tasks[k].status = STARTED
          /\ k \in DOMAIN tasks'
          /\ tasks'[k].status = FAILED
          /\ \A id \in DOMAIN tasks :
                 tasks[id].status \notin {CANCELLING, CANCELLED}
          /\ \A id \in DOMAIN workers : ~workers[id]._is_canceled
          /\ \E j \in DOMAIN tasks : tasks[j].status = WAITING /\ tasks[j].queued
          => \/ \E j \in DOMAIN tasks :
                   /\ tasks[j].status = WAITING
                   /\ j \in DOMAIN tasks'
                   /\ tasks'[j].status # WAITING
             \/ active_tasks' # {}]_vars

(* C7: jobs are started in creation order: a job leaves Waiting only when no *)
(* job created before it (a smaller id) is Waiting, also at the start that   *)
(* follows a job reaching Completed.                                         *)
C7_StartsInCreationOrder ==
    [][\A j \in DOMAIN tasks :
          /\ tasks[j].status = WAITING
          /\ j \in DOMAIN tasks'
          /\ tasks'[j].status # WAITING
          => \A i \in DOMAIN tasks : i < j => tasks[i].status # WAITING]_vars

(* the handler that completed a job started the earlier of two Waiting jobs *)
C7_Witness ==
    \E n \in 1..Len(log), m \in 1..Len(log), j \in DOMAIN tasks :
        /\ n < m
        /\ log[n].status = COMPLETED
        /\ log[m].previous = WAITING
        /\ log[m].status = STARTED
        /\ log[m].task_id < j
        /\ log[m].task_id \in active_workers
        /\ tasks[j].status = WAITING

(* C8: when the worker reported success and the export of its result failed, *)
(* the job is Failed with the export's error and was not made Completed.     *)
C8_ExportFailureFailsTheJob ==
    \A i \in 1..Len(exports) :
        ~exports[i].success /\ exports[i].task_id \in DOMAIN tasks
            => /\ tasks[exports[i].task_id].status = FAILED
               /\ tasks[exports[i].task_id].error = ERR_EXPORT
               /\ \A n \in 1..Len(log) :
                      log[n].task_id = exports[i].task_id
                          => log[n].status # COMPLETED

C8_Witness ==
    \E i \in 1..Len(exports) :
        /\ ~exports[i].success
        /\ exports[i].task_id \in DOMAIN tasks
        /\ tasks[exports[i].task_id].status = FAILED
        /\ tasks[exports[i].task_id].error = ERR_EXPORT

(* C9: the worker created at a job start runs the in-process strategy when   *)
(* the device preference is "cpu", whatever the environment; with "cuda" or  *)
(* "auto" it runs the subprocess strategy exactly when                       *)
(* can_use_gpu_acceleration() holds of the environment probed at that start; *)
(* and a worker keeps the strategy it was created with.                      *)
C9_StrategySelection ==
    [][\A id \in DOMAIN workers' :
          IF id \in DOMAIN workers
          THEN workers'[id].strategy = workers[id].strategy
          ELSE workers'[id].strategy =
                   IF device = "cpu" THEN PYTHON
                   ELSE IF can_use_gpu_acceleration(environment_info')
                        THEN PRECOMPILED
                        ELSE PYTHON]_vars

(* under "cpu", on a host that can accelerate, a job was started and its      *)
(* worker runs the in-process strategy                                        *)
C9_Witness ==
    /\ device = "cpu"
    /\ can_use_gpu_acceleration(environment_info)
    /\ \E n \in 1..Len(log) :
          /\ log[n].status = STARTED
          /\ log[n].task_id \in active_workers
          /\ workers[log[n].task_id].strategy = PYTHON

(* C10, as stated: a job start with device "cuda" while                      *)
(* can_use_gpu_acceleration() is false selects the in-process strategy and   *)
(* calls the download trigger exactly once, for every such environment.      *)
C10_TriggerFiresOnce ==
    [][\A id \in DOMAIN workers' \ DOMAIN workers :
          device = "cuda" /\ ~can_use_gpu_acceleration(environment_info')
              => /\ workers'[id].strategy = PYTHON
                 /\ cuda_triggers' = 1]_vars

(* C10, amended: such a start selects the in-process strategy and calls the  *)
(* download trigger once when should_download_cuda_env() holds (Windows, a   *)
(* GPU, the executable missing) and not at all otherwise.                    *)
C10_TriggerFiresWhenProvisionable ==
    [][\A id \in DOMAIN workers' \ DOMAIN workers :
          device = "cuda" /\ ~can_use_gpu_acceleration(environment_info')
              => /\ workers'[id].strategy = PYTHON
                 /\ cuda_triggers' =
                        IF should_download_cuda_env(environment_info')
                        THEN 1 ELSE 0]_vars

C10_Witness ==
    /\ device = "cuda"
    /\ should_download_cuda_env(environment_info)
    /\ cuda_triggers = 1
    /\ cuda_downloader
    /\ \E n \in 1..Len(log) :
          /\ log[n].status = STARTED
          /\ log[n].task_id \in active_workers
          /\ workers[log[n].task_id].strategy = PYTHON

(* C11: a configuration change delivered while a job's worker is running     *)
(* changes no parameter value the worker reads afterwards: what a strategy   *)
(* observes of the parameters is what they were when its job was started.    *)
C11_ParametersAreThoseOfTheStart ==
    [][\A id \in DOMAIN workers \cap DOMAIN workers' :
          workers'[id].parameters = workers[id].parameters]_vars

(* C12: a worker keeps the strategy it was spawned with, whatever happens to *)
(* the environment while its job runs, and a worker spawned at a job start   *)
(* gets the subprocess strategy exactly when the device preference is not    *)
(* "cpu" and the host, as probed at that start, can accelerate.              *)
C12_StrategyFixedAtSpawn ==
    [][\A id \in DOMAIN workers' :
          IF id \in DOMAIN workers
          THEN workers'[id].strategy = workers[id].strategy
          ELSE (workers'[id].strategy = PRECOMPILED)
                   <=> (device # "cpu"
                        /\ can_use_gpu_acceleration(Detect(host)))]_vars

(* a job runs in-process although the environment, refreshed since its      *)
(* start, can accelerate                                                     *)
C12_Witness ==
    \E id \in active_workers :
        /\ workers[id].pc = "running"
        /\ workers[id].strategy = PYTHON
        /\ device # "cpu"
        /\ can_use_gpu_acceleration(environment_info)
        /\ tasks[id].status = STARTED

(* C13: when the configured model is not present at the time a job is        *)
(* assigned, the job is Failed and no worker was created or bound for it.    *)
C13_MissingModelFailsWithoutWorker ==
    \A i \in 1..Len(model_lookups) :
        ~model_lookups[i].present
            => /\ model_lookups[i].task_id \notin active_workers
               /\ model_lookups[i].task_id \notin DOMAIN workers
               /\ model_lookups[i].task_id \notin active_tasks
               /\ model_lookups[i].task_id \in DOMAIN tasks
                      => tasks[model_lookups[i].task_id].status = FAILED

C13_Witness ==
    \E i \in 1..Len(model_lookups) :
        /\ ~model_lookups[i].present
        /\ model_lookups[i].task_id \in DOMAIN tasks
        /\ tasks[model_lookups[i].task_id].status = FAILED
        /\ tasks[model_lookups[i].task_id].error = ERR_MODEL
        /\ model_lookups[i].task_id \notin DOMAIN workers

(* C14: a job whose status is Failed has a non-empty error text, whichever   *)
(* way the run failed: an exception (its message empty or not), a failure    *)
(* reported with an empty error, a missing model before the worker is        *)
(* created, or a failed export.                                              *)
C14_FailedJobHasAnErrorText ==
    \A id \in DOMAIN tasks :
        tasks[id].status = FAILED => tasks[id].error # NO_ERROR

(* a job has just been failed by a WORKER_FAILED event whose error was empty *)
C14_Witness ==
    \E id \in DOMAIN tasks :
        /\ tasks[id].status = FAILED
        /\ tasks[id].error = ERR_UNKNOWN
        /\ \E i \in 1..Len(log) : log[i].task_id = id /\ log[i].status = FAILED

(* C15: Completed, Failed and Cancelled are absorbing. A job of the registry *)
(* that has one of them keeps it through every step (start and cancel        *)
(* requests, worker events, error events) for as long as it is in the        *)
(* registry, and no worker is created for it: a Failed job is not started    *)
(* again.                                                                    *)
C15_TerminalStatusesAreAbsorbing ==
    [][\A id \in DOMAIN tasks :
          tasks[id].status \in TERMINAL_STATUSES
              => /\ id \in DOMAIN tasks' => tasks'[id].status = tasks[id].status
                 /\ id \in DOMAIN workers' => id \in DOMAIN workers]_vars

(* a start request has just started a job while an older job of the registry *)
(* is Failed                                                                 *)
C15_Witness ==
    \E id \in DOMAIN tasks, i \in 1..Len(log) :
        /\ tasks[id].status = FAILED
        /\ log[i].task_id > id
        /\ log[i].status = STARTED

(* C16: a job whose status is active (Preparing, Started, InProgress,        *)
(* Exporting or Cancelling) is still in the registry after every step, a     *)
(* REQUEST_REMOVE_TASK or a REQUEST_CLEAR_TASKS included.                    *)
C16_ActiveJobsAreNotRemoved ==
    [][\A id \in DOMAIN tasks :
          tasks[id].status \in ACTIVE_STATUSES => id \in DOMAIN tasks']_vars

(* C17: an add request creates one Waiting job for each file it names that   *)
(* exists and whose extension is a supported audio or video format, and none *)
(* for the others: add_tasks returns as many ids as there are such files     *)
(* (2 for a.mp3, b.mp4, c.txt), each the id of a Waiting job of the          *)
(* registry.                                                                 *)
C17_OneWaitingJobPerMediaFile ==
    file_paths # <<>> =>
        /\ Len(added_task_ids) =
               Cardinality({i \in 1..Len(file_paths) :
                   /\ file_paths[i].exists
                   /\ Lower(Suffix(file_paths[i].name))
                          \in SUPPORTED_AUDIO_FORMATS \cup SUPPORTED_VIDEO_FORMATS})
        /\ \A k \in 1..Len(added_task_ids) :
               /\ added_task_ids[k] \in DOMAIN tasks
               /\ tasks[added_task_ids[k]].status = WAITING

(* C18: a start-processing request handled when no job is Waiting changes    *)
(* nothing: the jobs keep every field, no worker is created, nothing is      *)
(* registered as active, and the services publish no event (no status        *)
(* change, no model lookup, no download).                                    *)
C18_StartWithoutWaitingJobIsNoOp ==
    [][(handled' = "REQUEST_START_PROCESSING" /\ get_pending_tasks(tasks) = <<>>)
          => /\ UNCHANGED <<tasks, task_counter, workers, active_tasks,
                            active_workers, queue, environment_info,
                            use_precompiled, cuda_downloader>>
             /\ log' = <<>>
             /\ model_lookups' = <<>>
             /\ exports' = <<>>
             /\ cuda_triggers' = 0]_vars

(* a start request has just been handled with a registry that holds jobs,    *)
(* none of them Waiting                                                      *)
C18_Witness ==
    /\ handled = "REQUEST_START_PROCESSING"
    /\ DOMAIN tasks # {}
    /\ get_pending_tasks(tasks) = <<>>
    /\ log = <<>>

(* C19: a cancel-processing request handled when no job of the registry has  *)
(* an active status changes nothing: the jobs keep every field, no worker's  *)
(* cancel flag is set and no status change is published, so that handling it *)
(* again leaves the same state.                                              *)
C19_CancelWithoutActiveJobIsNoOp ==
    [][(handled' = "REQUEST_CANCEL_PROCESSING" /\ get_active_tasks(tasks) = {})
          => /\ UNCHANGED <<tasks, task_counter, workers, active_tasks,
                            active_workers, queue>>
             /\ log' = <<>>]_vars

(* C20: the progress fractions a run publishes for a job never decrease,     *)
(* whatever the audio duration, when the segments' end times do not          *)
(* decrease.                                                                 *)
C20_ProgressNeverRegresses ==
    \A i, j \in 1..Len(context.reports) :
        i <= j => context.reports[i] <= context.reports[j]

(* C21: every step in which a job of the registry becomes Completed, Failed *)
(* or Cancelled and after which no job is active (no job has an active      *)
(* status and active_tasks is empty) publishes the batch-wide               *)
(* TRANSCRIPTION_COMPLETED event, the failure of the model lookup made      *)
(* before a worker is spawned included.                                     *)
C21_LastTerminalTransitionPublishesBatchComplete ==
    [][((\E id \in DOMAIN tasks' :
            /\ tasks'[id].status \in TERMINAL_STATUSES
            /\ id \in DOMAIN tasks => tasks[id].status \notin TERMINAL_STATUSES)
        /\ get_active_tasks(tasks') = {}
        /\ active_tasks' = {})
       => batch_completed' >= 1]_vars

(* C22: unload_model is called only when no worker thread is running, no    *)
(* worker handle is held and no job of the registry has an active status,   *)
(* whatever the order of the workers' outcomes and of the start of the next *)
(* job.                                                                     *)
C22_UnloadOnlyWhenIdle ==
    \A i \in 1..Len(unload_requests) :
        /\ unload_requests[i].running = {}
        /\ unload_requests[i].handles = {}
        /\ unload_requests[i].active = {}

(* the last job of a batch of two ended and the unload was requested *)
C22_Witness ==
    /\ unload_requests # <<>>
    /\ Cardinality(DOMAIN tasks) = 2
    /\ \A id \in DOMAIN tasks : tasks[id].status \in TERMINAL_STATUSES
    /\ \E id \in DOMAIN tasks : tasks[id].status = COMPLETED

(* C23: no worker handle is held for a job that is Completed, Failed or     *)
(* Cancelled.                                                               *)
C23_TerminalJobHasNoWorkerHandle ==
    \A id \in DOMAIN tasks :
        tasks[id].status \in TERMINAL_STATUSES => id \notin active_workers

(* a worker's WORKER_CANCELLED event has just made its job Cancelled, and   *)
(* the handle of that worker is gone                                        *)
C23_Witness ==
    \E i \in 1..Len(log) :
        /\ log[i].status = CANCELLED
        /\ log[i].task_id \in DOMAIN tasks
        /\ tasks[log[i].task_id].status = CANCELLED
        /\ log[i].task_id \notin active_workers

(* C24: a publish on a topic calls every handler subscribed to the topic    *)
(* exactly once, in the order of the subscriptions, also when handlers     *)
(* called earlier raised an exception.                                     *)
C24_EveryHandlerIsCalledOnceInOrder ==
    bus.event_name # "none" =>
        [i \in 1..Len(bus.invoked) |-> bus.invoked[i].handler] = bus.subscribed

(* C25: a call of refresh publishes ENVIRONMENT_STATUS_CHANGED if and only  *)
(* if a field of the EnvironmentInfo probed differs from its value before  *)
(* the call.                                                               *)
C25_RefreshPublishesIffChanged ==
    refreshed.called =>
        (refreshed.published >= 1 <=> refreshed.new_info # refreshed.old_info)

(* C26: a timestamp hh:mm:ss.xxx or mm:ss.xxx that is parsed and written   *)
(* again in its own form (hh:mm:ss.xxx by _format_timestamp, mm:ss.xxx by  *)
(* format_timestamp) is the timestamp that was read, 00:01:05.250 and      *)
(* 5:00.000 included.                                                      *)
C26_TimestampRoundTrip ==
    timestamp.pc = "written" =>
        timestamp.time_str = IF Len(Split(timestamp.time_str, ":")) = 3
                             THEN timestamp.hh_mm_ss
                             ELSE timestamp.mm_ss

(* C27: a run of the subprocess strategy that is not cancelled and whose    *)
(* child started, wrote lines to stdout that the strategy read, and exited *)
(* with code 0, returns success.                                           *)
C27_ChildThatExitsZeroIsSuccess ==
    (/\ process.pc = "returned"
     /\ process.child = "exited"
     /\ process.returncode = "0"
     /\ process.written >= 1
     /\ process.read = process.written
     /\ ~process._is_canceled)
    => process.success

(* C28: a job that was started ends in one of Completed, Failed and         *)
(* Cancelled once its strategy run has returned: the worker publishes one  *)
(* of WORKER_COMPLETED, WORKER_FAILED and WORKER_CANCELLED, and the step   *)
(* that delivers this event to the orchestrator leaves the job with a      *)
(* terminal status.                                                        *)
C28_WorkerEventEndsTheJob ==
    [][(queue # <<>> /\ queue' = Tail(queue))
       => /\ Head(queue).task_id \in DOMAIN tasks'
          /\ tasks'[Head(queue).task_id].status \in TERMINAL_STATUSES]_vars

(* C29: the progress the in-process strategy publishes for a segment is    *)
(* the segment's end divided by the audio duration, kept within 0 and 1,   *)
(* for every end time, those of at most one second too, and every positive *)
(* duration.                                                               *)
C29_InProcessProgressIsEndOverDuration ==
    (/\ context.strategy = PYTHON
     /\ context.audio_duration > 0
     /\ context.reports # <<>>)
    => context.reports[Len(context.reports)]
           = calculate(context.end, context.audio_duration)

(* C30: when the probe gave no duration (audio_duration is 0.0), every     *)
(* progress published for the run is 0, under both strategies and for      *)
(* every segment end time.                                                 *)
C30_UnknownDurationReportsZero ==
    context.audio_duration = 0 =>
        \A i \in 1..Len(context.reports) : context.reports[i] = 0

(* C31: every TASK_STATE_CHANGED event carries the status, progress, error  *)
(* and output path that the registry holds for its job when it is           *)
(* published, whichever component publishes it.                             *)
C31_StateEventCarriesRegistrySnapshot ==
    \A i \in 1..Len(state_events) :
        LET e == state_events[i]
        IN  /\ e.held # {}
            /\ \A t \in e.held : /\ t.status = e.status
                                 /\ t.progress = e.progress
                                 /\ t.error = e.error
                                 /\ t.output_path = e.output_path

(* C32: while a job is active, the progress the registry holds for it is    *)
(* the progress its worker reported last: once a progress event of an       *)
(* active job has been delivered, the registry's progress is the event's.   *)
C32_RegistryProgressIsLastReport ==
    \A i \in 1..Len(process_info) :
        LET e == process_info[i]
        IN  e.task_id \in get_active_tasks(tasks)
                => tasks[e.task_id].progress = e.progress

C35_ExitCodeDecidesFailure ==
    (process.pc = "returned" /\ process.child = "exited")
        => /\ process.returncode \notin {"0", "3221226505"}
                  => ~process.success
           /\ (process.returncode = "3221226505" /\ process.success)
                  => process.json # "none"

C35_Witness ==
    /\ process.pc = "returned"
    /\ process.child = "exited"
    /\ process.returncode = "3221226505"
    /\ process.json # "none"
    /\ process.success

(* C36: when the subprocess strategy has returned, with success, failure   *)
(* or cancellation, its child has ended and the thread that reads the      *)
(* child's stderr has ended.                                               *)
C36_ReturnAfterChildAndReaderEnded ==
    process.pc = "returned"
        => /\ process.child # "running"
           /\ process.stderr_thread # "running"

(* C33: an EnvironmentInfo obtained from get_environment_info before a     *)
(* call of refresh has, after the call, the field values it had when it    *)
(* was obtained.                                                           *)
C33_ObtainedInfoIsNotModified ==
    (refreshed.got # "none" /\ refreshed.called)
        => environment_info = refreshed.seen

(* C34: what a probe raises does not leave refresh, and the capability the *)
(* probe is for is then reported absent.                                   *)
C34_ProbeFailureIsAbsence ==
    refreshed.called
        => /\ ~refreshed.raised
           /\ "gpu" \in refreshed.raising => ~environment_info.has_gpu
           /\ "whisper_app" \in refreshed.raising
                  => ~environment_info.whisper_app_available

(* C37: each subscriber is called with the state-changed events of a job   *)
(* in the order in which the transitions of that job were applied to the   *)
(* registry, also when the handler of one of the events made a start       *)
(* request whose events were dispatched within its call.                   *)
C37_EventsOfAJobAreDeliveredInOrder ==
    LET of_job(list, id) == SelectSeq(list, LAMBDA e : e.task_id = id)
        EventsOfJob(list, id) ==
            [i \in 1..Len(of_job(list, id)) |-> of_job(list, id)[i].status]
    IN  \A x \in DOMAIN delivered, id \in 1..(task_counter - 1) :
            EventsOfJob(delivered[x], id) = EventsOfJob(state_events, id)

(* the completion of one job started the next within the dispatch of its   *)
(* Completed event, so MainWindow was called with the events of the next   *)
(* job before the Completed event                                          *)
C37_Witness ==
    /\ Len(delivered["MainWindow"]) >= 3
    /\ delivered["MainWindow"][Len(delivered["MainWindow"])].status = COMPLETED
    /\ delivered["TaskView"][1].status = COMPLETED
    /\ delivered["TaskView"] # delivered["MainWindow"]

(* C38: the id given to a job that is created, by add_tasks or by          *)
(* add_task, is the id of no job the registry holds at that moment.        *)
C38_CreatedIdIsNew ==
    registry.last.created => ~registry.last.existed

(* C39: when a handler unsubscribes from the topic while an event of the   *)
(* topic is delivered, every handler that was subscribed at the publish    *)
(* and still is after the delivery was called exactly once with the event. *)
C39_NoSubscribedHandlerIsSkipped ==
    bus.event_name # "none" =>
        \A h \in Handlers :
            (/\ Contains(bus.subscribed, h)
             /\ bus.event_name \in DOMAIN bus._subscribers
             /\ Contains(bus._subscribers[bus.event_name], h))
                => Cardinality({i \in 1..Len(bus.invoked) :
                                    bus.invoked[i].handler = h}) = 1

====
